---- MODULE Spec2Model ----
(***************************************************************************)
(* Model of the Jenkins AI analyzer: the LLM provider layer of tools.py    *)
(* (get_llm, llm_predict), the log-text and directory-scan tools of        *)
(* tools.py, and the analyze request of main.py (run_tool, the two gather  *)
(* phases, the dependent LLM phase and the final synthesis).               *)
(*                                                                         *)
(* A Python str is modelled as the sequence of its lines, a line as the    *)
(* sequence of its tokens (words); a tool result is a record tagged with   *)
(* its Python type ("str" or "dict").                                      *)
(***************************************************************************)
EXTENDS Integers, Sequences, FiniteSets, TLC

VARIABLES
  OPEN_AI_API_KEY,   \* environment: the hosted provider's key (a token sequence)
  OLLAMA_BASE_URL,   \* environment: the local server's base URL (a token sequence)
  llm,               \* tools.py module global: "unloaded", "openai", "ollama" or "none"
  invocation,        \* the last llm_predict call: prompt, providers attempted, raised, result
  log,               \* log-tool development: the input text
  tool,              \* log-tool / scan development: the tool applied last
  outcome,           \* log-tool / scan development: what that call produced
  tree,              \* scan development: the directory tree walked
  pc,                \* analyze: position of the request handler
  decoded_log,       \* analyze: the uploaded log
  agent,             \* analyze: the cached agent ("none" until get_agent returns)
  tool_results,      \* analyze: the dict name -> result
  keys,              \* analyze: the insertion order of tool_results
  status,            \* analyze: each unit idle, running, returned or raised
  gathered,          \* analyze: the result list of the gather being awaited
  calls,             \* analyze: the argument each started unit was invoked with
  summary,           \* analyze: the summary handed to the renderer
  faults,            \* analyze: exceptions the environment raised in this request
  reordered          \* analyze: a unit finished before one declared earlier

invokeVars == <<OPEN_AI_API_KEY, OLLAMA_BASE_URL, llm, invocation>>
toolVars == <<log, tool, outcome, tree>>
runVars == <<pc, decoded_log, agent, tool_results, keys, status, gathered, calls,
             summary, faults, reordered>>
vars == <<invokeVars, toolVars, runVars>>

(***************************************************************************)
(* Bounds of the model.                                                    *)
(***************************************************************************)
MaxLines == 2
MaxFaults == 1
MaxFiles == 2

(***************************************************************************)
(* Python values.                                                          *)
(***************************************************************************)
Str(lines) == [type |-> "str", lines |-> lines]

Line(tokens) == Str(<<tokens>>)

EmptyStr == Str(<<>>)

\* bool(s) of a str: false exactly for "", the text with no line or one empty line
Truthy(s) == ~(s.lines = <<>> \/ s.lines = << <<>> >>)

\* "\n".join(xs) for a list of lines
Join(xs) == Str(xs)

\* "\n".join(xs) or sentinel
JoinOr(xs, sentinel) == IF Truthy(Join(xs)) THEN Join(xs) ELSE Line(<<sentinel>>)

isinstance_str(v) == v.type = "str"

NoMeta == [model_name |-> "", total_tokens |-> 0]

\* the metadata a provider's response object carries
Meta(provider) ==
  IF provider = "openai" THEN [model_name |-> "gpt-4", total_tokens |-> 1]
  ELSE [model_name |-> "llama3.2", total_tokens |-> 0]

Prompt(template, arg) == [template |-> template, arg |-> arg]

NoPrompt == Prompt("", EmptyStr)

Content(text, by, about) == [text |-> text, by |-> by, about |-> about]

Dict(content, meta) ==
  [type |-> "dict", content |-> content, response_metadata |-> meta,
   usage_metadata |-> meta]

\* what provider `p` answers to `prompt` when its call returns
Reply(p, prompt) == Content(<<"reply">>, p, prompt)

\* str(e) of the exception a provider's call raises
ProviderError(p) == <<"call to", p, "failed">>

(***************************************************************************)
(* tools.py: provider selection and llm_predict.                           *)
(***************************************************************************)
Keys == { <<>>, <<"your_ope", "nai_api_key">>, <<"sk-", "live">> }
Urls == { <<>>, <<"http://", "ollama:11434">> }

\* key.startswith(prefix) for a one-token prefix
startswith(s, prefix) == Len(s) > 0 /\ s[1] = prefix

is_valid_openai_key(key) == key # <<>> /\ ~startswith(key, "your_ope")

\* get_llm() given whether each constructor raises
get_llm(key, url, openaiRaises, ollamaRaises) ==
  IF is_valid_openai_key(key) /\ ~openaiRaises THEN "openai"
  ELSE IF url # <<>> /\ ~ollamaRaises THEN "ollama"
  ELSE "none"

\* the providers llm_predict calls, in order, for the module's llm
ProvidersTried(l) == IF l \in {"openai", "ollama"} THEN <<l>> ELSE <<>>

\* a variant of llm_predict_on that rejects a response whose content is empty
llm_predict_validated(l, prompt, raises, result) ==
  IF l \in {"openai", "ollama"}
  THEN IF ~raises /\ result.text # <<>>
       THEN Dict(result, Meta(l))
       ELSE Dict(Content(<<"LLM failed:">> \o ProviderError(l), "", NoPrompt), NoMeta)
  ELSE Dict(Content(<<"No LLM available.">>, "", NoPrompt), NoMeta)

\* llm_predict(prompt) when llm.invoke(prompt) raises, or returns `result`
llm_predict_on(l, prompt, raises, result) ==
  IF l \in {"openai", "ollama"}
  THEN IF ~raises
       THEN Dict(result, Meta(l))
       ELSE Dict(Content(<<"LLM failed:">> \o ProviderError(l), "", NoPrompt), NoMeta)
  ELSE Dict(Content(<<"No LLM available.">>, "", NoPrompt), NoMeta)

\* llm_predict(prompt) when the call of the selected provider raises or not
llm_predict(l, prompt, raises) == llm_predict_on(l, prompt, raises, Reply(l, prompt))

\* the response objects llm.invoke may return: an answer, or one with empty content
Responses(l, prompt) == { Reply(l, prompt), Content(<<>>, l, prompt) }

NoResponse == Content(<<>>, "", NoPrompt)

NoInvocation ==
  [prompt |-> NoPrompt, attempted |-> <<>>, raised |-> <<>>, response |-> NoResponse,
   result |-> Dict(Content(<<>>, "", NoPrompt), NoMeta)]

Templates ==
  {"Suggest fixes for the following Jenkins build errors:",
   "Explain this Jenkins pipeline YAML file:",
   "Check for misconfigurations in this Terraform file:",
   "Create a GitHub PR title and body for the following fix:",
   "Summarize this Jenkins log:"}

PromptArgs == { EmptyStr, Line(<<"Error:", "boom">>) }

ToolIdle == /\ log = <<>>
            /\ tool = "none"
            /\ outcome = [raised |-> FALSE, value |-> EmptyStr]
            /\ tree = <<>>

\* main.py: the registered tool list
tools ==
  <<"check_build_status", "extract_error_lines", "suggest_fixes", "explain_yml",
    "check_tf_issues", "generate_pr_text", "summarize_log", "lint_python_files",
    "check_dockerfile_security", "scan_for_secrets", "check_dependency_vulnerabilities",
    "check_yaml_json_syntax", "detect_slow_tests", "extract_failed_tests",
    "detect_deprecated_warnings">>

Range(xs) == { xs[i] : i \in 1..Len(xs) }

\* the units of work of one request: every tool call and the synthesis call
Units == Range(tools) \cup {"synthesis"}

NoArg == [type |-> "none"]

NoSummary == [type |-> "dict", content |-> Content(<<>>, "", NoPrompt)]

RunIdle == /\ pc = "idle"
           /\ decoded_log = <<>>
           /\ agent = "none"
           /\ tool_results = <<>>
           /\ keys = <<>>
           /\ status = [u \in Units |-> "idle"]
           /\ gathered = <<>>
           /\ calls = [u \in Units |-> NoArg]
           /\ summary = NoSummary
           /\ faults = 0
           /\ reordered = FALSE

InitInvoke ==
  /\ OPEN_AI_API_KEY \in Keys
  /\ OLLAMA_BASE_URL \in Urls
  /\ llm = "unloaded"
  /\ invocation = NoInvocation
  /\ ToolIdle
  /\ RunIdle

\* import of tools.py: llm = get_llm()
ImportTools ==
  /\ llm = "unloaded"
  /\ \E openaiRaises \in BOOLEAN, ollamaRaises \in BOOLEAN :
       llm' = get_llm(OPEN_AI_API_KEY, OLLAMA_BASE_URL, openaiRaises, ollamaRaises)
  /\ UNCHANGED <<OPEN_AI_API_KEY, OLLAMA_BASE_URL, invocation, toolVars, runVars>>

\* one call of llm_predict
Invoke ==
  /\ llm # "unloaded"
  /\ \E t \in Templates, a \in PromptArgs, raises \in BOOLEAN :
       \E result \in Responses(llm, Prompt(t, a)) :
         invocation' =
           [prompt |-> Prompt(t, a),
            attempted |-> ProvidersTried(llm),
            raised |-> IF raises THEN ProvidersTried(llm) ELSE <<>>,
            response |-> IF raises \/ ProvidersTried(llm) = <<>>
                         THEN NoResponse ELSE result,
            result |-> llm_predict_on(llm, Prompt(t, a), raises, result)]
  /\ UNCHANGED <<OPEN_AI_API_KEY, OLLAMA_BASE_URL, llm, toolVars, runVars>>

NextInvoke == ImportTools \/ Invoke

SpecInvoke == InitInvoke /\ [][NextInvoke]_vars

(***************************************************************************)
(* tools.py: the log-text tools.  A token's text is looked up in tables:   *)
(* lower() gives its lower-case form, Sub the keywords occurring in a      *)
(* text, Duration the match of the slow-test pattern.                      *)
(***************************************************************************)
Tokens ==
  {"BUILD", "FAILURE", "Error:", "error", "NullPointerException", "Traceback",
   "DEPRECATED", "Failed tests:", "testFoo", "6.2s -> test_a", "3.1s -> test_b",
   "ok", " "}

\* token.lower()
lower(tok) ==
  CASE tok = "BUILD" -> "build"
    [] tok = "FAILURE" -> "failure"
    [] tok = "Error:" -> "error:"
    [] tok = "NullPointerException" -> "nullpointerexception"
    [] tok = "Traceback" -> "traceback"
    [] tok = "DEPRECATED" -> "deprecated"
    [] tok = "Failed tests:" -> "failed tests:"
    [] tok = "testFoo" -> "testfoo"
    [] OTHER -> tok

\* the keywords of the tools that occur (case-sensitively) in a text
Sub(text) ==
  CASE text = "FAILURE" -> {"FAILURE"}
    [] text = "Error:" -> {"Error:"}
    [] text = "NullPointerException" -> {"Exception"}
    [] text = "Traceback" -> {"Traceback"}
    [] text = "Failed tests:" -> {"Failed tests:"}
    [] text = "error" -> {"error"}
    [] text = "error:" -> {"error"}
    [] text = "nullpointerexception" -> {"exception"}
    [] text = "deprecated" -> {"deprecated"}
    [] OTHER -> {}

\* k in line
InLine(k, line) ==
  \/ \E i \in 1..Len(line) : k \in Sub(line[i])
  \/ k = "BUILD FAILURE" /\ \E i \in 1..(Len(line) - 1) :
       line[i] = "BUILD" /\ line[i + 1] = "FAILURE"

\* k in line.lower()
InLowerLine(k, line) == \E i \in 1..Len(line) : k \in Sub(lower(line[i]))

\* k in log, for a keyword without a line break
InLog(k, text) == \E i \in 1..Len(text) : InLine(k, text[i])

IsSpace(tok) == tok = " "

RECURSIVE lstrip(_)
lstrip(line) ==
  IF line # <<>> /\ IsSpace(Head(line)) THEN lstrip(Tail(line)) ELSE line

RECURSIVE rstrip(_)
rstrip(line) ==
  IF line # <<>> /\ IsSpace(line[Len(line)])
  THEN rstrip(SubSeq(line, 1, Len(line) - 1)) ELSE line

\* line.strip()
strip(line) == rstrip(lstrip(line))

check_build_status(text) ==
  IF \E k \in {"BUILD FAILURE", "FAILURE", "Error:", "Exception", "Traceback"} :
       InLog(k, text)
  THEN Line(<<"Build failed.">>) ELSE Line(<<"Build passed.">>)

IsErrorLine(l) == InLowerLine("error", l) \/ InLowerLine("exception", l)

extract_error_lines(text) == JoinOr(SelectSeq(text, IsErrorLine), "No errors found.")

\* the first match of (\d+(\.\d+)?)s\s+->\s+([\w\.]+) in a token: seconds in tenths
Duration(tok) ==
  CASE tok = "6.2s -> test_a" -> [matched |-> TRUE, tenths |-> 62, secs |-> "6.2", name |-> "test_a"]
    [] tok = "3.1s -> test_b" -> [matched |-> TRUE, tenths |-> 31, secs |-> "3.1", name |-> "test_b"]
    [] OTHER -> [matched |-> FALSE, tenths |-> 0, secs |-> "", name |-> ""]

\* re.search over a line: the leftmost match
RECURSIVE search(_)
search(line) ==
  IF line = <<>> THEN Duration("")
  ELSE IF Duration(Head(line)).matched THEN Duration(Head(line))
  ELSE search(Tail(line))

SlowThresholdTenths == 50

RECURSIVE slow_tests(_)
slow_tests(text) ==
  IF text = <<>> THEN <<>>
  ELSE LET m == search(Head(text))
       IN (IF m.matched /\ m.tenths > SlowThresholdTenths
           THEN << <<"Slow test:", m.name, "took", m.secs, "s">> >> ELSE <<>>)
          \o slow_tests(Tail(text))

detect_slow_tests(text) == JoinOr(slow_tests(text), "No slow tests found.")

\* the loop of extract_failed_tests from a position, with its capture flag
RECURSIVE failed_tests(_, _)
failed_tests(text, capture) ==
  IF text = <<>> THEN <<>>
  ELSE IF InLine("Failed tests:", Head(text)) THEN failed_tests(Tail(text), TRUE)
  ELSE IF capture /\ strip(Head(text)) = <<>> THEN <<>>
  ELSE IF capture THEN <<strip(Head(text))>> \o failed_tests(Tail(text), capture)
  ELSE failed_tests(Tail(text), capture)

extract_failed_tests(text) == JoinOr(failed_tests(text, FALSE), "No failed tests found.")

IsDeprecatedLine(l) == InLowerLine("deprecated", l)

detect_deprecated_warnings(text) ==
  JoinOr(SelectSeq(text, IsDeprecatedLine), "No deprecated warnings found.")

\* the LLM tools: each returns what llm_predict returns
suggest_fixes(l, errors, raises) ==
  llm_predict(l, Prompt("Suggest fixes for the following Jenkins build errors:", errors), raises)

explain_yml(l, content, raises) ==
  llm_predict(l, Prompt("Explain this Jenkins pipeline YAML file:", content), raises)

check_tf_issues(l, tf_file, raises) ==
  llm_predict(l, Prompt("Check for misconfigurations in this Terraform file:", tf_file), raises)

generate_pr_text(l, fix_summary, raises) ==
  llm_predict(l, Prompt("Create a GitHub PR title and body for the following fix:", fix_summary), raises)

summarize_log(l, text, raises) ==
  llm_predict(l, Prompt("Summarize this Jenkins log:", text), raises)

(***************************************************************************)
(* The log-text tools applied to every log of at most MaxLines lines.      *)
(***************************************************************************)
LogLines ==
  { <<>>, <<" ">>, <<"ok">>, <<"BUILD", "FAILURE">>, <<"Error:", "ok">>, <<"error">>,
    <<"NullPointerException">>, <<"DEPRECATED", "ok">>, <<"Failed tests:">>,
    <<" ", "testFoo", " ">>, <<"6.2s -> test_a">>, <<"3.1s -> test_b">> }

RECURSIVE SeqsUpTo(_, _)
SeqsUpTo(S, n) ==
  IF n = 0 THEN { <<>> }
  ELSE LET shorter == SeqsUpTo(S, n - 1)
       IN shorter \cup { Append(s, x) : s \in shorter, x \in S }

Logs == SeqsUpTo(LogLines, MaxLines)

LogTextTools ==
  {"check_build_status", "extract_error_lines", "summarize_log", "detect_slow_tests",
   "extract_failed_tests", "detect_deprecated_warnings"}

InvokeIdle == /\ OPEN_AI_API_KEY = <<>>
              /\ OLLAMA_BASE_URL = <<>>
              /\ invocation = NoInvocation

InitLog ==
  /\ log \in Logs
  /\ llm \in {"openai", "none"}
  /\ tool = "none"
  /\ outcome = [raised |-> FALSE, value |-> EmptyStr]
  /\ tree = <<>>
  /\ InvokeIdle
  /\ RunIdle

Returns(t, v) ==
  /\ tool' = t
  /\ outcome' = [raised |-> FALSE, value |-> v]
  /\ UNCHANGED <<log, tree, invokeVars, runVars>>

Call_check_build_status == Returns("check_build_status", check_build_status(log))

Call_extract_error_lines == Returns("extract_error_lines", extract_error_lines(log))

Call_summarize_log ==
  \E raises \in BOOLEAN : Returns("summarize_log", summarize_log(llm, Str(log), raises))

Call_detect_slow_tests == Returns("detect_slow_tests", detect_slow_tests(log))

Call_extract_failed_tests == Returns("extract_failed_tests", extract_failed_tests(log))

Call_detect_deprecated_warnings ==
  Returns("detect_deprecated_warnings", detect_deprecated_warnings(log))

NextLog ==
  \/ Call_check_build_status
  \/ Call_extract_error_lines
  \/ Call_summarize_log
  \/ Call_detect_slow_tests
  \/ Call_extract_failed_tests
  \/ Call_detect_deprecated_warnings

SpecLog == InitLog /\ [][NextLog]_vars

(***************************************************************************)
(* tools.py: the directory-scan tools.  A tree is the sequence of          *)
(* directories os.walk yields top-down, each with its path below the root  *)
(* and its files; a file has a name and the kind of its content.           *)
(***************************************************************************)
File(name, kind) == [name |-> name, kind |-> kind]

\* the extension fname.endswith tests, by file name
Ext(name) ==
  CASE name \in {"app.py", "settings.py"} -> ".py"
    [] name = "package.json" -> ".json"
    [] name = "ci.yml" -> ".yml"
    [] name = "requirements.txt" -> ".txt"
    [] OTHER -> ""

\* fname.lower()
lower_name(name) == IF name = "Dockerfile" THEN "dockerfile" ELSE name

\* open(path, encoding="utf-8").read() raises: undecodable bytes or an OS error
ReadRaises(f) == f.kind \in {"bad_utf8", "unreadable"}

\* open(path) itself raises
OpenRaises(f) == f.kind = "unreadable"

\* the parser of the file's format rejects its text
ParseRaises(f) == f.kind = "malformed"

SECRET_EXCLUDED_DIRS == {".git", "__pycache__", "venv", ".venv", "node_modules"}

NoScan == [raised |-> FALSE, findings |-> <<>>, visited |-> <<>>]

Path(dirpath, name) == dirpath \o <<name>>

Raise(acc, path) == [acc EXCEPT !.raised = TRUE, !.visited = Append(@, path)]

Visit(acc, path) == [acc EXCEPT !.visited = Append(@, path)]

Report(acc, line) == [acc EXCEPT !.findings = Append(@, line)]

\* the body of lint_python_files's inner loop for one file
lint_file(acc, dirpath, f) ==
  IF Ext(f.name) # ".py" THEN acc
  ELSE IF ReadRaises(f) THEN Raise(acc, Path(dirpath, f.name))
  ELSE IF ParseRaises(f)
       THEN Report(Visit(acc, Path(dirpath, f.name)), <<f.name, "invalid syntax">>)
  ELSE Visit(acc, Path(dirpath, f.name))

\* the body of check_dockerfile_security's inner loop for one file
dockerfile_file(acc, dirpath, f) ==
  IF lower_name(f.name) # "dockerfile" THEN acc
  ELSE IF ReadRaises(f) THEN Raise(acc, Path(dirpath, f.name))
  ELSE IF f.kind = "finding"
       THEN Report(Visit(acc, Path(dirpath, f.name)), <<f.name, "Avoid using 'latest' tag.">>)
  ELSE Visit(acc, Path(dirpath, f.name))

\* the body of scan_for_secrets's inner loop for one file (errors="ignore")
secrets_file(acc, dirpath, f) ==
  IF Ext(f.name) \notin {".py", ".env", ".yml", ".yaml", ".json", ".js"} THEN acc
  ELSE IF OpenRaises(f)
       THEN Report(Visit(acc, Path(dirpath, f.name)),
                   Path(dirpath, f.name) \o <<"Error reading file">>)
  ELSE IF f.kind = "finding" /\ f.name = "settings.py"
       THEN Report(Visit(acc, Path(dirpath, f.name)),
                   Path(dirpath, f.name) \o <<"password = 'hunter2'">>)
  ELSE Visit(acc, Path(dirpath, f.name))

\* the body of check_yaml_json_syntax's inner loop for one file
yaml_json_file(acc, dirpath, f) ==
  IF OpenRaises(f)
  THEN Report(Visit(acc, Path(dirpath, f.name)), Path(dirpath, f.name) \o <<"cannot open">>)
  ELSE IF Ext(f.name) \in {".yml", ".yaml", ".json"} /\ (ReadRaises(f) \/ ParseRaises(f))
       THEN Report(Visit(acc, Path(dirpath, f.name)),
                   Path(dirpath, f.name) \o <<"cannot parse">>)
  ELSE Visit(acc, Path(dirpath, f.name))

HasFile(files, name) == \E i \in 1..Len(files) : files[i].name = name

TheFile(files, name) == files[CHOOSE i \in 1..Len(files) : files[i].name = name]

\* one of the two blocks of check_dependency_vulnerabilities for a directory
manifest(acc, dirpath, files, name, message) ==
  IF acc.raised \/ ~HasFile(files, name) THEN acc
  ELSE LET f == TheFile(files, name)
       IN IF ReadRaises(f) \/ (name = "package.json" /\ ParseRaises(f))
          THEN Raise(acc, Path(dirpath, name))
          ELSE IF f.kind = "finding"
               THEN Report(Visit(acc, Path(dirpath, name)), <<name, message>>)
          ELSE Visit(acc, Path(dirpath, name))

\* the body of check_dependency_vulnerabilities's loop for one directory
dependency_dir(acc, dirpath, files) ==
  manifest(manifest(acc, dirpath, files, "requirements.txt", "looks insecure"),
           dirpath, files, "package.json", "version is not pinned")

file_step(t, acc, dirpath, f) ==
  CASE t = "lint_python_files" -> lint_file(acc, dirpath, f)
    [] t = "check_dockerfile_security" -> dockerfile_file(acc, dirpath, f)
    [] t = "scan_for_secrets" -> secrets_file(acc, dirpath, f)
    [] t = "check_yaml_json_syntax" -> yaml_json_file(acc, dirpath, f)
    [] OTHER -> acc

\* for fname in filenames: ..., left as soon as an exception escapes
RECURSIVE for_files(_, _, _, _)
for_files(t, acc, dirpath, files) ==
  IF files = <<>> \/ acc.raised THEN acc
  ELSE for_files(t, file_step(t, acc, dirpath, Head(files)), dirpath, Tail(files))

\* os.walk with dirnames[:] pruned: a directory below a removed name is never yielded
Pruned(t, dirpath) ==
  /\ t = "scan_for_secrets"
  /\ \E i \in 1..Len(dirpath) : dirpath[i] \in SECRET_EXCLUDED_DIRS

\* for dirpath, dirnames, filenames in os.walk(root_dir): ...
RECURSIVE walk(_, _, _)
walk(t, acc, entries) ==
  IF entries = <<>> \/ acc.raised THEN acc
  ELSE LET d == Head(entries)
           next == IF Pruned(t, d.path) THEN acc
                   ELSE IF t = "check_dependency_vulnerabilities"
                        THEN dependency_dir(acc, d.path, d.files)
                   ELSE for_files(t, acc, d.path, d.files)
       IN walk(t, next, Tail(entries))

Sentinel(t) ==
  CASE t = "lint_python_files" -> "No Python syntax errors found."
    [] t = "check_dockerfile_security" -> "No Dockerfile issues found."
    [] t = "scan_for_secrets" -> "No secrets found."
    [] t = "check_dependency_vulnerabilities" -> "No obvious dependency issues."
    [] t = "check_yaml_json_syntax" -> "No YAML/JSON syntax errors."

DirScanTools ==
  {"lint_python_files", "check_dockerfile_security", "scan_for_secrets",
   "check_dependency_vulnerabilities", "check_yaml_json_syntax"}

\* a directory-scan tool called on a tree: raises, or returns its findings joined
scan(t, entries) ==
  LET acc == walk(t, NoScan, entries)
  IN [raised |-> acc.raised,
      value |-> IF acc.raised THEN Line(<<"exception">>) ELSE JoinOr(acc.findings, Sentinel(t)),
      findings |-> acc.findings,
      visited |-> acc.visited]

(***************************************************************************)
(* The directory-scan tools applied to every tree of a root and one        *)
(* directory below it, each with at most MaxFiles files.                   *)
(***************************************************************************)
Files ==
  { File("app.py", "malformed"), File("app.py", "bad_utf8"),
    File("settings.py", "finding"), File("settings.py", "unreadable"),
    File("Dockerfile", "finding"), File("Dockerfile", "bad_utf8"),
    File("package.json", "malformed"), File("package.json", "finding"),
    File("requirements.txt", "finding"), File("ci.yml", "malformed") }

DistinctNames(files) ==
  \A i, j \in 1..Len(files) : files[i].name = files[j].name => i = j

Listings == { fs \in SeqsUpTo(Files, MaxFiles) : DistinctNames(fs) }

SubDirs == { <<"src">>, <<"venv">>, <<"node_modules", "pkg">> }

Trees ==
  { << [path |-> <<>>, files |-> a], [path |-> p, files |-> b] >> :
      a \in Listings, p \in SubDirs, b \in Listings }

InitScan ==
  /\ tree \in Trees
  /\ log = <<>>
  /\ tool = "none"
  /\ outcome = [raised |-> FALSE, value |-> EmptyStr]
  /\ llm = "none"
  /\ InvokeIdle
  /\ RunIdle

Scanned(t) ==
  /\ tool' = t
  /\ outcome' = scan(t, tree)
  /\ UNCHANGED <<log, tree, invokeVars, runVars>>

Call_lint_python_files == Scanned("lint_python_files")

Call_check_dockerfile_security == Scanned("check_dockerfile_security")

Call_scan_for_secrets == Scanned("scan_for_secrets")

Call_check_dependency_vulnerabilities == Scanned("check_dependency_vulnerabilities")

Call_check_yaml_json_syntax == Scanned("check_yaml_json_syntax")

NextScan ==
  \/ Call_lint_python_files
  \/ Call_check_dockerfile_security
  \/ Call_scan_for_secrets
  \/ Call_check_dependency_vulnerabilities
  \/ Call_check_yaml_json_syntax

SpecScan == InitScan /\ [][NextScan]_vars

(***************************************************************************)
(* main.py: the analyze request.                                           *)
(***************************************************************************)
\* get_agent() given whether each construction raises; "raise" is the RuntimeError
get_agent(key, url, openaiRaises, ollamaRaises) ==
  IF is_valid_openai_key(key) /\ ~openaiRaises THEN "openai"
  ELSE IF url # <<>> /\ ~ollamaRaises THEN "ollama"
  ELSE "raise"

\* the keys of log_tasks, in the order the dict literal declares them
log_tasks ==
  <<"check_build_status", "extract_error_lines", "summarize_log", "explain_yml",
    "check_tf_issues", "detect_slow_tests", "extract_failed_tests",
    "detect_deprecated_warnings">>

\* dir_tasks with a registered tool left out of the dict literal
dir_tasks_without_yaml ==
  <<"lint_python_files", "check_dockerfile_security", "scan_for_secrets",
    "check_dependency_vulnerabilities">>

\* the keys of dir_tasks, in the order the dict literal declares them
dir_tasks ==
  <<"lint_python_files", "check_dockerfile_security", "scan_for_secrets",
    "check_dependency_vulnerabilities", "check_yaml_json_syntax">>

LlmTools == {"suggest_fixes", "explain_yml", "check_tf_issues", "generate_pr_text",
             "summarize_log"}

Pending == [type |-> "pending"]

\* str(e) of the exception tool `t` raised
ToolError(t) == <<t, "raised">>

\* tool.invoke(args): what the tool returns, or that it raises
invoke_tool(t, arg, l, root, raises) ==
  CASE t = "check_build_status" -> [raised |-> FALSE, value |-> check_build_status(arg.lines)]
    [] t = "extract_error_lines" -> [raised |-> FALSE, value |-> extract_error_lines(arg.lines)]
    [] t = "detect_slow_tests" -> [raised |-> FALSE, value |-> detect_slow_tests(arg.lines)]
    [] t = "extract_failed_tests" -> [raised |-> FALSE, value |-> extract_failed_tests(arg.lines)]
    [] t = "detect_deprecated_warnings" ->
         [raised |-> FALSE, value |-> detect_deprecated_warnings(arg.lines)]
    [] t = "summarize_log" -> [raised |-> FALSE, value |-> summarize_log(l, arg, raises)]
    [] t = "explain_yml" -> [raised |-> FALSE, value |-> explain_yml(l, arg, raises)]
    [] t = "check_tf_issues" -> [raised |-> FALSE, value |-> check_tf_issues(l, arg, raises)]
    [] t = "suggest_fixes" -> [raised |-> FALSE, value |-> suggest_fixes(l, arg, raises)]
    [] t = "generate_pr_text" -> [raised |-> FALSE, value |-> generate_pr_text(l, arg, raises)]
    [] OTHER -> [raised |-> scan(t, root).raised, value |-> scan(t, root).value]

\* whether the call of run_tool ends in its except branch
tool_raises(t, arg, l, root, fault, raises) ==
  fault \/ invoke_tool(t, arg, l, root, raises).raised

\* run_tool(tool, args): the tool's value, or f"Error: {e}" when it raises
run_tool(t, arg, l, root, fault, raises) ==
  IF tool_raises(t, arg, l, root, fault, raises)
  THEN Line(<<"Error:">> \o ToolError(t))
  ELSE invoke_tool(t, arg, l, root, raises).value

\* results appended as the awaitables complete
gather_slot_by_completion(i, ndone) == ndone + 1

\* the position in the result list where asyncio.gather puts the result of the
\* i-th awaitable, `ndone` results being there already
gather_slot(i, ndone) == i

\* a wait that returns at the first completion
gather_first_done(names, st) == \E i \in 1..Len(names) : st[names[i]] \in {"returned", "raised"}

\* asyncio.gather(...) returns: every awaitable of `names` is done
gather_done(names, st) == \A i \in 1..Len(names) : st[names[i]] \in {"returned", "raised"}

\* tool_results.update(dict(zip(ks, vs)))
update(tr, ks, vs) ==
  [k \in (DOMAIN tr) \cup Range(ks) |->
     IF k \in Range(ks) THEN vs[CHOOSE i \in 1..Len(ks) : ks[i] = k] ELSE tr[k]]

\* tool_results[k] = v
setitem(tr, k, v) == [x \in (DOMAIN tr) \cup {k} |-> IF x = k THEN v ELSE tr[x]]

\* the insertion order after the keys `ks` are set
inserted(order, ks) == order \o SelectSeq(ks, LAMBDA k : k \notin Range(order))

\* f"{tool_results}": the items in insertion order
items(order, tr) == [i \in 1..Len(order) |-> [key |-> order[i], value |-> tr[order[i]]]]

\* the argument of generate_pr_text: fix_summary if isinstance(fix_summary, str) else ""
pr_argument(fix_summary) == IF isinstance_str(fix_summary) THEN fix_summary ELSE EmptyStr

\* agent.run awaited without the try/except: its exception leaves analyze
synthesis_unguarded(a, prompt, raises) ==
  IF raises
  THEN [returns |-> FALSE, summary |-> NoSummary]
  ELSE [returns |-> TRUE,
        summary |-> [type |-> "dict", content |-> Reply(a, prompt),
                     response_metadata |-> NoMeta, usage_metadata |-> NoMeta]]

\* the try/except around agent.run: the summary, and whether analyze goes on
synthesis(a, prompt, raises) ==
  IF raises
  THEN [returns |-> TRUE,
        summary |-> [type |-> "dict",
                     content |-> Content(<<"LLM summarization failed:", a, "raised">>,
                                         "", NoPrompt)]]
  ELSE [returns |-> TRUE,
        summary |-> [type |-> "dict", content |-> Reply(a, prompt),
                     response_metadata |-> NoMeta, usage_metadata |-> NoMeta]]

ElapsedTime == Line(<<"elapsed", "seconds">>)

(***************************************************************************)
(* The requests explored: two logs, one project directory.                 *)
(***************************************************************************)
RunLogs ==
  { << <<"ok">> >>,
    << <<"BUILD", "FAILURE">>, <<"NullPointerException">>, <<"DEPRECATED", "ok">> >> }

PROJECT_ROOT ==
  << [path |-> <<>>, files |-> <<File("app.py", "malformed"), File("package.json", "malformed")>>],
     [path |-> <<"venv">>, files |-> <<File("settings.py", "finding")>>] >>

\* the keys of the requests explored: the placeholder of the example configuration, a real key
RunKeys == { k \in Keys : k # <<>> }

Init ==
  /\ OPEN_AI_API_KEY \in RunKeys
  /\ OLLAMA_BASE_URL \in Urls
  /\ \E openaiRaises \in BOOLEAN, ollamaRaises \in BOOLEAN :
       llm = get_llm(OPEN_AI_API_KEY, OLLAMA_BASE_URL, openaiRaises, ollamaRaises)
  /\ invocation = NoInvocation
  /\ log = <<>>
  /\ tool = "none"
  /\ outcome = [raised |-> FALSE, value |-> EmptyStr]
  /\ tree = PROJECT_ROOT
  /\ pc = "start"
  /\ decoded_log \in RunLogs
  /\ agent = "none"
  /\ tool_results = <<>>
  /\ keys = <<>>
  /\ status = [u \in Units |-> "idle"]
  /\ gathered = <<>>
  /\ calls = [u \in Units |-> NoArg]
  /\ summary = NoSummary
  /\ faults = 0
  /\ reordered = FALSE

current_tasks == IF pc = "log_gather" THEN log_tasks ELSE dir_tasks

\* the argument a unit of the current gather is created with
task_argument(t) == IF pc = "log_gather" THEN Str(decoded_log) ELSE Line(<<".">>)

\* lines 143-166: get_agent(), then the log coroutines are handed to gather
GetAgent ==
  /\ pc = "start"
  /\ \E openaiRaises \in BOOLEAN, ollamaRaises \in BOOLEAN :
       LET a == get_agent(OPEN_AI_API_KEY, OLLAMA_BASE_URL, openaiRaises, ollamaRaises)
       IN IF a = "raise"
          THEN /\ pc' = "raised"
               /\ UNCHANGED <<agent, gathered>>
          ELSE /\ pc' = "log_gather"
               /\ agent' = a
               /\ gathered' = [i \in 1..Len(log_tasks) |-> Pending]
  /\ UNCHANGED <<decoded_log, tool_results, keys, status, calls, summary, faults,
                 reordered, invokeVars, toolVars>>

\* the event loop runs the next task of the gather to its await: the tool call is
\* handed to a worker thread (tasks take their first step in creation order)
StartUnit ==
  /\ pc \in {"log_gather", "dir_gather"}
  /\ \E i \in 1..Len(current_tasks) :
       /\ status[current_tasks[i]] = "idle"
       /\ \A j \in 1..(i - 1) : status[current_tasks[j]] # "idle"
       /\ status' = [status EXCEPT ![current_tasks[i]] = "running"]
       /\ calls' = [calls EXCEPT ![current_tasks[i]] = task_argument(current_tasks[i])]
  /\ UNCHANGED <<pc, decoded_log, agent, tool_results, keys, gathered, summary, faults,
                 reordered, invokeVars, toolVars>>

\* a running unit of the gather ends: run_tool returns the value or the error text
FinishUnit ==
  /\ pc \in {"log_gather", "dir_gather"}
  /\ \E i \in 1..Len(current_tasks), fault \in BOOLEAN, raises \in BOOLEAN :
       LET t == current_tasks[i]
           ndone == Cardinality({ j \in 1..Len(gathered) : gathered[j] # Pending })
       IN /\ status[t] = "running"
          /\ ~(fault /\ raises)
          /\ raises => (t \in LlmTools /\ llm \in {"openai", "ollama"})
          /\ (fault \/ raises) => faults < MaxFaults
          /\ faults' = faults + (IF fault \/ raises THEN 1 ELSE 0)
          /\ status' = [status EXCEPT ![t] =
                          IF tool_raises(t, calls[t], llm, tree, fault, raises)
                          THEN "raised" ELSE "returned"]
          /\ gathered' = [gathered EXCEPT ![gather_slot(i, ndone)] =
                            run_tool(t, calls[t], llm, tree, fault, raises)]
          /\ reordered' = (reordered \/ \E j \in 1..(i - 1) :
                                          status[current_tasks[j]] = "running")
  /\ UNCHANGED <<pc, decoded_log, agent, tool_results, keys, calls, summary,
                 invokeVars, toolVars>>

\* lines 166-171: gather returns, the results are zipped in, suggest_fixes is started
JoinLog ==
  /\ pc = "log_gather"
  /\ gather_done(log_tasks, status)
  /\ LET tr == update(tool_results, log_tasks, gathered)
         errors == IF "extract_error_lines" \in DOMAIN tr
                   THEN tr["extract_error_lines"] ELSE EmptyStr
     IN /\ tool_results' = tr
        /\ keys' = inserted(keys, log_tasks)
        /\ calls' = [calls EXCEPT !["suggest_fixes"] = errors]
  /\ status' = [status EXCEPT !["suggest_fixes"] = "running"]
  /\ pc' = "suggest"
  /\ UNCHANGED <<decoded_log, agent, gathered, summary, faults, reordered,
                 invokeVars, toolVars>>

\* a unit awaited alone ends
FinishAlone(t, fault, raises) ==
  /\ status[t] = "running"
  /\ ~(fault /\ raises)
  /\ raises => llm \in {"openai", "ollama"}
  /\ (fault \/ raises) => faults < MaxFaults
  /\ faults' = faults + (IF fault \/ raises THEN 1 ELSE 0)

\* lines 171-174: suggest_fixes ends, its result is stored, generate_pr_text is started
FinishSuggest ==
  /\ pc = "suggest"
  /\ \E fault \in BOOLEAN, raises \in BOOLEAN :
       LET fix_summary == run_tool("suggest_fixes", calls["suggest_fixes"], llm, tree,
                                   fault, raises)
       IN /\ FinishAlone("suggest_fixes", fault, raises)
          /\ tool_results' = setitem(tool_results, "suggest_fixes", fix_summary)
          /\ keys' = inserted(keys, <<"suggest_fixes">>)
          /\ calls' = [calls EXCEPT !["generate_pr_text"] = pr_argument(fix_summary)]
          /\ status' = [status EXCEPT
                          !["suggest_fixes"] = IF fault THEN "raised" ELSE "returned",
                          !["generate_pr_text"] = "running"]
  /\ pc' = "pr"
  /\ UNCHANGED <<decoded_log, agent, gathered, summary, reordered, invokeVars, toolVars>>

\* lines 174-185: generate_pr_text ends, its result is stored, the directory
\* coroutines are handed to gather
FinishPr ==
  /\ pc = "pr"
  /\ \E fault \in BOOLEAN, raises \in BOOLEAN :
       LET pr_text == run_tool("generate_pr_text", calls["generate_pr_text"], llm, tree,
                               fault, raises)
       IN /\ FinishAlone("generate_pr_text", fault, raises)
          /\ tool_results' = setitem(tool_results, "generate_pr_text", pr_text)
          /\ keys' = inserted(keys, <<"generate_pr_text">>)
          /\ status' = [status EXCEPT
                          !["generate_pr_text"] = IF fault THEN "raised" ELSE "returned"]
  /\ gathered' = [i \in 1..Len(dir_tasks) |-> Pending]
  /\ pc' = "dir_gather"
  /\ UNCHANGED <<decoded_log, agent, calls, summary, reordered, invokeVars, toolVars>>

\* lines 185-189: gather returns, the results are zipped in, agent.run is started
JoinDir ==
  /\ pc = "dir_gather"
  /\ gather_done(dir_tasks, status)
  /\ LET tr == update(tool_results, dir_tasks, gathered)
         order == inserted(keys, dir_tasks)
     IN /\ tool_results' = tr
        /\ keys' = order
        /\ calls' = [calls EXCEPT !["synthesis"] = items(order, tr)]
  /\ status' = [status EXCEPT !["synthesis"] = "running"]
  /\ pc' = "synthesis"
  /\ UNCHANGED <<decoded_log, agent, gathered, summary, faults, reordered,
                 invokeVars, toolVars>>

SynthesisTemplate ==
  "Given the following tool results, provide a detailed analysis and suggest a fix:"

\* lines 189-199: agent.run ends, the summary is built, the elapsed time is stored,
\* the report is rendered
FinishSynthesis ==
  /\ pc = "synthesis"
  /\ \E raises \in BOOLEAN :
       LET r == synthesis(agent, Prompt(SynthesisTemplate, calls["synthesis"]), raises)
       IN /\ raises => faults < MaxFaults
          /\ faults' = faults + (IF raises THEN 1 ELSE 0)
          /\ status' = [status EXCEPT !["synthesis"] = IF raises THEN "raised" ELSE "returned"]
          /\ IF r.returns
             THEN /\ summary' = r.summary
                  /\ tool_results' = setitem(tool_results, "analysis_time", ElapsedTime)
                  /\ keys' = inserted(keys, <<"analysis_time">>)
                  /\ pc' = "done"
             ELSE /\ pc' = "raised"
                  /\ UNCHANGED <<summary, tool_results, keys>>
  /\ UNCHANGED <<decoded_log, agent, gathered, calls, reordered, invokeVars, toolVars>>

Next ==
  \/ GetAgent
  \/ StartUnit
  \/ FinishUnit
  \/ JoinLog
  \/ FinishSuggest
  \/ FinishPr
  \/ JoinDir
  \/ FinishSynthesis

Spec == Init /\ [][Next]_vars

(***************************************************************************)
(* The claims.                                                             *)
(***************************************************************************)
\* main.py line 33: the excluded directory names
EXCLUDED_DIRS == {".git", "venv", "__pycache__", "node_modules"}

SameValue(a, b) == a.type = b.type /\ a = b

\* C1: when a hosted and a local provider are both configured and the hosted one
\* raises on the call, the same llm_predict call attempts the local provider and
\* returns a success carrying the local provider's content.
C1_FallbackPerInvocation ==
  (/\ is_valid_openai_key(OPEN_AI_API_KEY)
   /\ OLLAMA_BASE_URL # <<>>
   /\ invocation.raised = <<"openai">>)
  => /\ invocation.attempted = <<"openai", "ollama">>
     /\ invocation.result.content = Reply("ollama", invocation.prompt)

\* C2: with no valid key and no base URL, the analyze request never ends with an
\* exception leaving the handler.
C2_NoBackendReported ==
  (~is_valid_openai_key(OPEN_AI_API_KEY) /\ OLLAMA_BASE_URL = <<>>) => pc # "raised"

\* C3: a request that returns holds exactly one entry per registered tool (the
\* error text for a tool that raised) and, besides, only the elapsed-time key,
\* which is no tool name.
C3_RunCompleteness ==
  pc = "done" =>
    /\ DOMAIN tool_results = Range(tools) \cup {"analysis_time"}
    /\ "analysis_time" \notin Range(tools)
    /\ Range(keys) = DOMAIN tool_results
    /\ Len(keys) = Len(tools) + 1
    /\ \A t \in Range(tools) :
         /\ tool_results[t].type \in {"str", "dict"}
         /\ status[t] = "raised" => tool_results[t] = Line(<<"Error:">> \o ToolError(t))

C3_Witness ==
  /\ pc = "done"
  /\ status["check_build_status"] = "raised"
  /\ status["check_dependency_vulnerabilities"] = "raised"
  /\ status["summarize_log"] = "returned"

\* C4: suggest_fixes is invoked with the result of extract_error_lines, and
\* generate_pr_text with the result suggest_fixes produced.
C4_DependentWiring ==
  /\ status["suggest_fixes"] # "idle" =>
       SameValue(calls["suggest_fixes"], tool_results["extract_error_lines"])
  /\ status["generate_pr_text"] \in {"returned", "raised"} =>
       SameValue(calls["generate_pr_text"], tool_results["suggest_fixes"])

Done(t) == status[t] \in {"returned", "raised"}

\* C5: suggest_fixes starts only after every log unit has ended, generate_pr_text
\* only after suggest_fixes has ended, a directory unit only after generate_pr_text
\* has ended, and the synthesis only after every directory unit has ended.
C5_PhaseBarriers ==
  /\ status["suggest_fixes"] # "idle" => \A i \in 1..Len(log_tasks) : Done(log_tasks[i])
  /\ status["generate_pr_text"] # "idle" => Done("suggest_fixes")
  /\ \A i \in 1..Len(dir_tasks) :
       status[dir_tasks[i]] # "idle" => Done("generate_pr_text")
  /\ status["synthesis"] # "idle" => \A i \in 1..Len(dir_tasks) : Done(dir_tasks[i])

C5_Witness == status["synthesis"] = "running" /\ reordered

\* the order in which analyze declares the keys of tool_results
DeclaredOrder == log_tasks \o <<"suggest_fixes", "generate_pr_text">> \o dir_tasks

\* the argument analyze passes to tool `t`, given the results stored so far
ArgumentOf(t) ==
  CASE t = "suggest_fixes" -> tool_results["extract_error_lines"]
    [] t = "generate_pr_text" -> pr_argument(tool_results["suggest_fixes"])
    [] t \in Range(dir_tasks) -> Line(<<".">>)
    [] OTHER -> Str(decoded_log)

\* what tool `t` itself yields on its argument, given whether it raised
OwnResults(t) ==
  IF status[t] = "raised"
  THEN { Line(<<"Error:">> \o ToolError(t)) }
  ELSE { run_tool(t, ArgumentOf(t), llm, tree, FALSE, raises) : raises \in BOOLEAN }

\* C6: whatever the order in which the units of a gather end, each tool name maps
\* to that tool's own result, and the synthesis prompt lists the results in the
\* declared order.  While a gather is running, the slot of every unit that has
\* ended already holds that unit's own result.
C6_OrderIndependence ==
  /\ pc \in {"log_gather", "dir_gather"} =>
       \A i \in 1..Len(gathered) :
         gathered[i] # Pending => gathered[i] \in OwnResults(current_tasks[i])
  /\ \A t \in (DOMAIN tool_results) \cap Range(tools) : tool_results[t] \in OwnResults(t)
  /\ pc \in {"synthesis", "done"} =>
       /\ SubSeq(keys, 1, Len(DeclaredOrder)) = DeclaredOrder
       /\ calls["synthesis"] = items(DeclaredOrder, tool_results)

C6_Witness == pc = "done" /\ reordered /\ status["extract_error_lines"] = "raised"

\* C7: no directory-scan tool raises on a file it cannot read or parse.
C7_ScanNeverRaises == tool \in DirScanTools => ~outcome.raised

\* C8: every log-text tool returns a non-empty string.
C8_LogToolsTotal ==
  tool \in LogTextTools =>
    /\ ~outcome.raised
    /\ outcome.value.type = "str"
    /\ Truthy(outcome.value)

\* C9: when the synthesis call raises, the request still returns, the summary
\* explains the failure, and the results collected before are unchanged.
C9_DegradedSynthesis ==
  status["synthesis"] = "raised" =>
    /\ pc = "done"
    /\ summary.content.text = <<"LLM summarization failed:", agent, "raised">>
    /\ DOMAIN tool_results =
         { calls["synthesis"][i].key : i \in 1..Len(calls["synthesis"]) }
           \cup {"analysis_time"}
    /\ \A i \in 1..Len(calls["synthesis"]) :
         tool_results[calls["synthesis"][i].key] = calls["synthesis"][i].value

C9_Witness ==
  /\ pc = "done"
  /\ status["synthesis"] = "raised"
  /\ status["suggest_fixes"] = "returned"

\* C10: no directory-scan tool opens a file below a directory whose name is
\* excluded.
C10_ExcludedDirsSkipped ==
  tool \in DirScanTools =>
    \A i \in 1..Len(outcome.visited) :
      \A j \in 1..(Len(outcome.visited[i]) - 1) : outcome.visited[i][j] \notin EXCLUDED_DIRS

\* the providers the environment configures, primary before secondary
ConfiguredOrder ==
  (IF is_valid_openai_key(OPEN_AI_API_KEY) THEN <<"openai">> ELSE <<>>)
    \o (IF OLLAMA_BASE_URL # <<>> THEN <<"ollama">> ELSE <<>>)

\* C11: within one llm_predict call the providers attempted are configured ones,
\* in configured order, each at most once; none is attempted after one that
\* returned without raising, and the response of a provider that returned is the
\* result as it came, empty content included.
C11_SingleAttemptStopAtSuccess ==
  LET a == invocation.attempted
      ok(i) == a[i] \notin Range(invocation.raised)
  IN /\ \A i \in 1..Len(a) :
          \E k \in 1..Len(ConfiguredOrder) :
            /\ ConfiguredOrder[k] = a[i]
            /\ \A j \in 1..(i - 1) :
                 \E h \in 1..(k - 1) : ConfiguredOrder[h] = a[j]
     /\ \A i \in 1..Len(a) : ok(i) => i = Len(a)
     /\ (a # <<>> /\ ok(Len(a))) =>
          /\ invocation.result.content = invocation.response
          /\ invocation.result.response_metadata = Meta(a[Len(a)])

C11_Witness ==
  /\ ConfiguredOrder = <<"openai", "ollama">>
  /\ invocation.attempted = <<"openai">>
  /\ invocation.raised = <<>>
  /\ invocation.response = Content(<<>>, "openai", invocation.prompt)
  /\ invocation.result.content.text = <<>>

====
